---- MODULE Spec2Model ----
(***************************************************************************)
(* Model of the CASA event-graphics renderer (src/design/casa_template.py) *)
(*                                                                         *)
(* A raster is modelled as its canvas size plus the ordered list of draw   *)
(* operations applied to it (a display list): two rasters are equal iff    *)
(* the same operations were applied, in the same order, to canvases of the *)
(* same size.  The file system is a map from paths to content kinds.       *)
(***************************************************************************)
EXTENDS Integers, Sequences, FiniteSets, TLC

VARIABLES
    files,      \* file system: path -> content kind
    last,       \* record of the last create_event_graphic call and its outcome
    wrap,       \* record of the last wrap_text call and its outcome
    px,         \* record of the last alpha-channel point() operation
    icon,       \* record of the last draw_icon call and its outcome
    fontreq,    \* record of the last font request and its outcome
    batch,      \* record of the last generate_complete_graphic call
    calls,      \* render calls in progress: call id -> position and canvas
    placed      \* last call of add_illustration: inputs and outcome

vars == <<files, last, wrap, px, icon, fontreq, batch, calls, placed>>

----------------------------------------------------------------------------
(* Bounds of the model                                                     *)

MaxScale == 3
MaxTextLen == 5
MaxWrapWidth == 12
MaxIconSize == 40
MaxAssetSide == 6

----------------------------------------------------------------------------
(* Generic sequence helpers (Python str / list primitives)                 *)

None == "None"

Truthy(p) == p # None /\ p # ""

Max2(a, b) == IF a >= b THEN a ELSE b

Abs(a) == IF a >= 0 THEN a ELSE 0 - a

\* sep.join(parts) for parts a list of strings (each a sequence of characters)
RECURSIVE Join(_, _)
Join(parts, sep) ==
    IF parts = <<>> THEN <<>>
    ELSE IF Len(parts) = 1 THEN parts[1]
    ELSE parts[1] \o sep \o Join(Tail(parts), sep)

\* text.split(sep) for a one-character separator: always at least one piece,
\* empty pieces are kept (Python str.split with an explicit separator)
RECURSIVE SplitAcc(_, _, _, _)
SplitAcc(text, sep, cur, acc) ==
    IF text = <<>> THEN Append(acc, cur)
    ELSE IF Head(text) = sep
         THEN SplitAcc(Tail(text), sep, <<>>, Append(acc, cur))
         ELSE SplitAcc(Tail(text), sep, Append(cur, Head(text)), acc)

Split(text, sep) == SplitAcc(text, sep, <<>>, <<>>)

\* title.replace('\\n', '\n'): the two characters backslash, n become a newline
RECURSIVE ReplaceEscapedNewline(_)
ReplaceEscapedNewline(text) ==
    IF Len(text) < 2 THEN text
    ELSE IF text[1] = "\\" /\ text[2] = "n"
         THEN <<"\n">> \o ReplaceEscapedNewline(SubSeq(text, 3, Len(text)))
         ELSE <<text[1]>> \o ReplaceEscapedNewline(Tail(text))

----------------------------------------------------------------------------
(* Paths, colours, formats (module-level constants of casa_template.py)    *)

LOGO_PATH == "public/lovable-uploads/47301834-0831-465c-ae5e-47a978038312.png"

MontserratLight == "fonts/Montserrat-Light.ttf"
MontserratRegular == "fonts/Montserrat.ttf"
MerriweatherItalic == "fonts/Merriweather-Italic.ttf"
MerriweatherRegular == "fonts/Merriweather-Regular.ttf"
HelveticaFallback == "/System/Library/Fonts/Helvetica.ttc"
GeorgiaFallback == "/System/Library/Fonts/Supplemental/Georgia.ttf"

FontPaths == {MontserratLight, MontserratRegular, MerriweatherItalic,
              MerriweatherRegular, HelveticaFallback, GeorgiaFallback}

COLORS == [black |-> <<26, 26, 26>>,
           amber |-> <<212, 168, 83>>,
           white |-> <<255, 255, 255>>,
           gray_light |-> <<229, 229, 229>>,
           gray_illustration |-> <<220, 220, 220>>]

amber_canva == <<184, 146, 61>>

FORMATS == [ppt_4_3 |-> <<1024, 768>>,
            instagram_post |-> <<1080, 1080>>,
            instagram_story |-> <<1080, 1920>>,
            facebook_post |-> <<1200, 630>>]

FormatNames == DOMAIN FORMATS

\* os.path.exists(path)
Exists(fs, path) == path \in DOMAIN fs /\ fs[path] # "absent"

\* Image.open(path).convert('RGBA') succeeds only on a decodable image file
Decodable(fs, path) == path \in DOMAIN fs /\ fs[path] = "image"

----------------------------------------------------------------------------
(* Draw operations: one record shape for every primitive                   *)
(*   kind    primitive ("paste", "line", "rectangle", "ellipse",           *)
(*           "polygon", "text")                                            *)
(*   p       coordinates, in pixels                                        *)
(*   w       stroke width (shapes) or font size (text), in pixels          *)
(*   txt     the characters drawn (text)                                   *)
(*   tag     asset path pasted, font file used, or fill/outline mode       *)
(*   color   RGB colour                                                    *)
(*   opacity percentage applied to the pasted asset's alpha channel        *)

Op(kind, p, w, txt, tag, color, opacity) ==
    [kind |-> kind, p |-> p, w |-> w, txt |-> txt, tag |-> tag,
     color |-> color, opacity |-> opacity]

Line(x1, y1, x2, y2, color, width) ==
    Op("line", <<x1, y1, x2, y2>>, width, <<>>, "fill", color, 100)

----------------------------------------------------------------------------
(* Fonts                                                                   *)

\* ImageFont.truetype(path, size): a font handle, or OSError when the file
\* cannot be read (ValueError when the size is not positive)
TrueType(fs, path, size) ==
    IF Exists(fs, path) /\ fs[path] # "corrupt" /\ size > 0
    THEN [ok |-> TRUE, path |-> path, size |-> size]
    ELSE [ok |-> FALSE, path |-> path, size |-> size]

get_montserrat(fs, size, weight) ==
    LET font_path == IF weight = "light" THEN MontserratLight
                     ELSE MontserratRegular
    IN  IF Exists(fs, font_path) THEN TrueType(fs, font_path, size)
        ELSE TrueType(fs, HelveticaFallback, size)

get_merriweather(fs, size, italic) ==
    LET font_path == IF italic THEN MerriweatherItalic
                     ELSE MerriweatherRegular
    IN  IF Exists(fs, font_path) THEN TrueType(fs, font_path, size)
        ELSE TrueType(fs, GeorgiaFallback, size)

\* generate_mockups.py: the system fonts get_font tries, in order
NewYork == "/System/Library/Fonts/NewYork.ttf"
TimesNewRoman == "/System/Library/Fonts/Times New Roman.ttf"
Arial == "/System/Library/Fonts/Supplemental/Arial.ttf"
SupplementalHelvetica == "/System/Library/Fonts/Supplemental/Helvetica.ttc"

MockupFontPaths ==
    {GeorgiaFallback, NewYork, TimesNewRoman, Arial, SupplementalHelvetica}

\* font_paths.get(name, font_paths['sans'])
font_paths(name) ==
    CASE name = "serif" -> <<GeorgiaFallback, NewYork, TimesNewRoman>>
      [] name = "light" -> <<GeorgiaFallback>>
      [] OTHER -> <<Arial, SupplementalHelvetica>>

\* int(size) for a size written as whole pixels and tenths, sign and
\* magnitude: the fraction is dropped (truncation toward zero)
PyInt(whole, tenths) == whole

\* size = max(10, int(size))
ClampSize(whole, tenths) == Max2(10, PyInt(whole, tenths))

\* ImageFont.load_default(): the built-in font, whatever size was asked
LoadDefault == [ok |-> TRUE, path |-> "load_default", size |-> 10]

\* for path in ...: if os.path.exists(path): try: return truetype(path,
\* size) except: continue; after the loop return ImageFont.load_default()
RECURSIVE FirstLoadable(_, _, _, _)
FirstLoadable(fs, chain, i, size) ==
    IF i > Len(chain) THEN LoadDefault
    ELSE IF Exists(fs, chain[i]) /\ TrueType(fs, chain[i], size).ok
         THEN TrueType(fs, chain[i], size)
         ELSE FirstLoadable(fs, chain, i + 1, size)

get_font(fs, name, whole, tenths) ==
    FirstLoadable(fs, font_paths(name), 1, ClampSize(whole, tenths))

\* Advance width of one character, in tenths of the font size
Advance(c) ==
    CASE c = " "  -> 3
      [] c = "\t" -> 0
      [] c = "\n" -> 0
      [] c = "i"  -> 3
      [] c = "m"  -> 9
      [] OTHER    -> 6

RECURSIVE SumAdvance(_)
SumAdvance(txt) ==
    IF txt = <<>> THEN 0 ELSE Advance(Head(txt)) + SumAdvance(Tail(txt))

\* bbox = draw.textbbox((0, 0), text, font=font); bbox[2] - bbox[0]
TextWidth(txt, font) == (SumAdvance(txt) * font.size) \div 10

Text(x, y, txt, font, color) ==
    Op("text", <<x, y>>, font.size, txt, font.path, color, 100)

----------------------------------------------------------------------------
(* draw_icon                                                               *)

\* Variant: the stroke width has no lower bound
IconLineWidthUnfloored(size) == size \div 12


IconLineWidth(size) == Max2(2, size \div 12)

HairlineWidth(size) == 1

CalendarIcon(x, y, size, color) ==
    LET line_width == IconLineWidth(size) IN
    << Op("rectangle", <<x, y + size \div 5, x + size, y + size>>,
          line_width, <<>>, "outline", color, 100),
       Line(x, y + size \div 3, x + size, y + size \div 3, color, line_width),
       Line(x + size \div 4, y, x + size \div 4, y + size \div 4,
            color, line_width),
       Line(x + (size * 3) \div 4, y, x + (size * 3) \div 4, y + size \div 4,
            color, line_width) >>
    \o [i \in 1..2 |->
          Line(x + size \div 8, y + size \div 3 + (i * size) \div 5,
               x + size - size \div 8, y + size \div 3 + (i * size) \div 5,
               color, HairlineWidth(size))]
    \o [i \in 1..3 |->
          Line(x + (i * size) \div 4, y + size \div 3 + size \div 10,
               x + (i * size) \div 4, y + size - size \div 10,
               color, HairlineWidth(size))]

\* Variant: the minute hand reaches the rim
ClockIconLongMinute(x, y, size, color) ==
    LET line_width == IconLineWidth(size)
        center_x == x + size \div 2
        center_y == y + size \div 2
    IN
    << Op("ellipse", <<x, y, x + size, y + size>>,
          line_width, <<>>, "outline", color, 100),
       Line(center_x, center_y, center_x, y + size \div 4, color, line_width),
       Line(center_x, center_y, x + size, center_y, color, line_width) >>


ClockIcon(x, y, size, color) ==
    LET line_width == IconLineWidth(size)
        center_x == x + size \div 2
        center_y == y + size \div 2
    IN
    << Op("ellipse", <<x, y, x + size, y + size>>,
          line_width, <<>>, "outline", color, 100),
       Line(center_x, center_y, center_x, y + size \div 4, color, line_width),
       Line(center_x, center_y, x + (size * 3) \div 4, center_y,
            color, line_width) >>

\* Variant: the tail starts at the lower edge of the head
LocationIconTailFromHead(x, y, size, color) ==
    LET line_width == IconLineWidth(size)
        center_x == x + size \div 2
    IN
    << Op("ellipse", <<x + size \div 4, y, x + (size * 3) \div 4, y + size \div 2>>,
          line_width, <<>>, "outline", color, 100),
       Op("ellipse", <<center_x - size \div 8, y + size \div 6,
                       center_x + size \div 8, y + size \div 6 + size \div 4>>,
          0, <<>>, "fill", color, 100),
       Op("polygon", <<x + size \div 4, y + size \div 2,
                       x + (size * 3) \div 4, y + size \div 2,
                       center_x, y + size>>,
          line_width, <<>>, "outline", color, 100) >>


LocationIcon(x, y, size, color) ==
    LET line_width == IconLineWidth(size)
        center_x == x + size \div 2
    IN
    << Op("ellipse", <<x + size \div 4, y, x + (size * 3) \div 4, y + size \div 2>>,
          line_width, <<>>, "outline", color, 100),
       Op("ellipse", <<center_x - size \div 8, y + size \div 6,
                       center_x + size \div 8, y + size \div 6 + size \div 4>>,
          0, <<>>, "fill", color, 100),
       Op("polygon", <<x + size \div 4, y + size \div 3,
                       x + (size * 3) \div 4, y + size \div 3,
                       center_x, y + size>>,
          line_width, <<>>, "outline", color, 100) >>

\* The operations draw_icon applies; an icon type that matches no branch
\* falls through the if/elif chain and draws nothing
draw_icon(icon_type, x, y, size, color) ==
    IF icon_type = "calendar" THEN CalendarIcon(x, y, size, color)
    ELSE IF icon_type = "clock" THEN ClockIcon(x, y, size, color)
    ELSE IF icon_type = "location" THEN LocationIcon(x, y, size, color)
    ELSE <<>>

----------------------------------------------------------------------------
(* wrap_text                                                               *)

\* Variant: only the new word is measured
TestLineWordOnly(current_line, word) == word

\* test_line = ' '.join(current_line + [word])
TestLine(current_line, word) == Join(Append(current_line, word), <<" ">>)

\* Variant: the budget is never tested
FitsAlways(text_width, max_width) == TRUE

\* if text_width <= max_width:
Fits(text_width, max_width) == text_width <= max_width

RECURSIVE WrapLoop(_, _, _, _, _, _)
WrapLoop(words, i, current_line, lines, font, max_width) ==
    IF i > Len(words)
    THEN IF current_line # <<>>
         THEN Append(lines, Join(current_line, <<" ">>))
         ELSE lines
    ELSE LET word == words[i]
             test_line == TestLine(current_line, word)
             text_width == TextWidth(test_line, font)
         IN  IF Fits(text_width, max_width)
             THEN WrapLoop(words, i + 1, Append(current_line, word), lines,
                           font, max_width)
             ELSE WrapLoop(words, i + 1, <<word>>,
                           IF current_line # <<>>
                           THEN Append(lines, Join(current_line, <<" ">>))
                           ELSE lines,
                           font, max_width)

wrap_text(text, font, max_width) ==
    WrapLoop(Split(text, " "), 1, <<>>, <<>>, font, max_width)

----------------------------------------------------------------------------
(* Opacity: alpha = alpha.point(lambda x: int(x * opacity))                *)

\* (x, percentage) pairs where the double-precision product x * opacity
\* falls just below the exact integer product, so int() yields one less
FloatShortfall ==
    { <<100, 29>>, <<200, 29>>, <<180, 35>>, <<100, 57>>, <<200, 57>>,
      <<50, 58>>, <<100, 58>>, <<200, 58>>, <<90, 70>>, <<170, 70>>,
      <<180, 70>>, <<150, 82>> }

\* Variant: the product is rounded to the nearest integer
PointOpacityRounded(x, pct) == (x * pct + 50) \div 100

\* int(x * opacity) for an 8-bit alpha x and opacity = pct / 100
PointOpacity(x, pct) ==
    IF <<x, pct>> \in FloatShortfall THEN (x * pct) \div 100 - 1
    ELSE (x * pct) \div 100

----------------------------------------------------------------------------
(* Layers shared by the four layouts                                       *)

IllustrationWarning == "Warning: No se pudo cargar la ilustracion"
LogoWarning == "Warning: No se pudo cargar el logo"

Layer(ops, warnings) == [ops |-> ops, warnings |-> warnings]

\* Image.resize((w, h)) raises ValueError unless both sides are positive
Resizable(w, h) == w > 0 /\ h > 0

\* if illustration_path and os.path.exists(illustration_path):
ShouldComposite(fs, illustration_path) ==
    Truthy(illustration_path) /\ Exists(fs, illustration_path)

\* Variant: the existence test is dropped and a failed open is not caught
\* before the paste
IllustrationLayerUnguarded(fs, illustration_path, x, y, w, h, opacity) ==
    IF Truthy(illustration_path)
    THEN IF Resizable(w, h)
         THEN Layer(<<Op("paste", <<x, y, w, h>>, 0, <<>>, illustration_path,
                         <<>>, opacity)>>, <<>>)
         ELSE Layer(<<>>, <<IllustrationWarning>>)
    ELSE Layer(<<>>, <<>>)

\* The illustration block of a layout: guarded by path and existence, the
\* open / resize / point / paste sequence runs inside try ... except
\* Exception, which prints a warning and continues
IllustrationLayer(fs, illustration_path, x, y, w, h, opacity) ==
    IF ShouldComposite(fs, illustration_path)
    THEN IF Decodable(fs, illustration_path) /\ Resizable(w, h)
         THEN Layer(<<Op("paste", <<x, y, w, h>>, 0, <<>>, illustration_path,
                         <<>>, opacity)>>, <<>>)
         ELSE Layer(<<>>, <<IllustrationWarning>>)
    ELSE Layer(<<>>, <<>>)

\* The logo block of a layout: no existence test, the whole of open /
\* resize / paste runs inside try ... except Exception
LogoLayer(fs, x, y, logo_size) ==
    IF Decodable(fs, LOGO_PATH) /\ Resizable(logo_size, logo_size)
    THEN Layer(<<Op("paste", <<x, y, logo_size, logo_size>>, 0, <<>>,
                    LOGO_PATH, <<>>, 100)>>, <<>>)
    ELSE Layer(<<>>, <<LogoWarning>>)

\* Variant: the logo block runs first
BaseLayersLogoFirst(illustration_ops, divider_ops, logo_ops) ==
    logo_ops \o illustration_ops \o divider_ops

\* Statement order at the top of a layout function: the illustration
\* block, the divider lines, the logo block
BaseLayers(illustration_ops, divider_ops, logo_ops) ==
    illustration_ops \o divider_ops \o logo_ops

\* Outcome of a layout function: ok = FALSE when an exception left it
\* (ops then holds what had been drawn before the exception)
Outcome(ok, ops, warnings) == [ok |-> ok, ops |-> ops, warnings |-> warnings]

\* Variant: the y coordinate is not advanced between lines
StackedTextFlat(x, y, lines, step, font, color) ==
    [i \in 1..Len(lines) |-> Text(x, y, lines[i], font, color)]

\* for line in lines: draw.text((x, y), line, ...); y += step
StackedText(x, y, lines, step, font, color) ==
    [i \in 1..Len(lines) |-> Text(x, y + (i - 1) * step, lines[i], font, color)]

\* Variant: the location is drawn as it is
LocationLinesUnwrapped(location, detail_font, max_text_width) == <<location>>

\* location_lines = wrap_text(location, detail_font, max_text_width, draw)
LocationLines(location, detail_font, max_text_width) ==
    wrap_text(location, detail_font, max_text_width)

\* int(c * s) with s = width / base
Scaled(c, width, base) == (c * width) \div base

----------------------------------------------------------------------------
(* LAYOUT: PPT 4:3                                                         *)

PptOpacity == 15

create_ppt_layout(fs, title, date, time, location, illustration_path, width, height, scale) ==
    LET s == scale
        line_thickness == 4 * s
        illust == IllustrationLayer(fs, illustration_path, 530 * s, 140 * s,
                                    470 * s, 513 * s, PptOpacity)
        dividers == << Line(77 * s, 83 * s, 425 * s, 83 * s, amber_canva, line_thickness),
                       Line(599 * s, 83 * s, 947 * s, 83 * s, amber_canva, line_thickness),
                       Line(75 * s, 690 * s, 947 * s, 690 * s, amber_canva, line_thickness) >>
        logo == LogoLayer(fs, 457 * s, 34 * s, 110 * s)
        title_font == get_montserrat(fs, 115 * s, "light")
        detail_font == get_merriweather(fs, 31 * s, TRUE)
        warnings == illust.warnings \o logo.warnings
        upto_logo == BaseLayers(illust.ops, dividers, logo.ops)
        upto_calendar ==
            upto_logo
            \o <<Text(59 * s, 151 * s, ReplaceEscapedNewline(title), title_font,
                      COLORS.black)>>
            \o draw_icon("calendar", 75 * s, 440 * s, 40 * s, amber_canva)
    IN  IF ~title_font.ok THEN Outcome(FALSE, upto_logo, warnings)
        ELSE IF ~detail_font.ok THEN Outcome(FALSE, upto_calendar, warnings)
        ELSE Outcome(TRUE,
                upto_calendar
                \o <<Text(129 * s, 444 * s, date, detail_font, amber_canva)>>
                \o draw_icon("clock", 77 * s, 499 * s, 39 * s, amber_canva)
                \o <<Text(129 * s, 500 * s, time, detail_font, amber_canva)>>
                \o draw_icon("location", 75 * s, 551 * s, 40 * s, amber_canva)
                \o <<Text(131 * s, 557 * s, location, detail_font, amber_canva)>>,
                warnings)

----------------------------------------------------------------------------
(* LAYOUT: Instagram Story                                                 *)

StoryOpacity == 15

create_ig_story_layout(fs, title, date, time, location, illustration_path, width, height) ==
    LET S(c) == Scaled(c, width, 1080)
        illust == IllustrationLayer(fs, illustration_path, S(63), S(750),
                                    S(954), S(1041), StoryOpacity)
        title_font == get_montserrat(fs, S(175), "regular")
        detail_font == get_merriweather(fs, S(65), FALSE)
        title_lines == Split(ReplaceEscapedNewline(title), "\n")
        upto_title == illust.ops
            \o StackedText(S(72), S(286), title_lines, S(145), title_font,
                           COLORS.black)
        location_lines == LocationLines(location, detail_font, S(850))
    IN  IF ~title_font.ok THEN Outcome(FALSE, illust.ops, illust.warnings)
        ELSE IF ~detail_font.ok THEN Outcome(FALSE, upto_title, illust.warnings)
        ELSE Outcome(TRUE,
                upto_title
                \o draw_icon("calendar", S(72), S(807), S(69), amber_canva)
                \o <<Text(S(161), S(798), date, detail_font, amber_canva)>>
                \o draw_icon("clock", S(72), S(974), S(69), amber_canva)
                \o <<Text(S(161), S(960), time, detail_font, amber_canva)>>
                \o draw_icon("location", S(72), S(1122), S(69), amber_canva)
                \o StackedText(S(161), S(1122), location_lines, S(70),
                               detail_font, amber_canva),
                illust.warnings)

----------------------------------------------------------------------------
(* LAYOUT: Instagram Post                                                  *)

PostOpacity == 15

create_ig_post_layout(fs, title, date, time, location, illustration_path, width, height) ==
    LET S(c) == Scaled(c, width, 1080)
        line_thickness == S(4)
        illust == IllustrationLayer(fs, illustration_path, S(240), S(0),
                                    S(954), S(1041), PostOpacity)
        dividers == << Line(S(42), S(109), S(1038), S(109), amber_canva, line_thickness),
                       Line(S(42), S(940), S(461), S(940), amber_canva, line_thickness),
                       Line(S(613), S(940), S(1032), S(940), amber_canva, line_thickness) >>
        logo == LogoLayer(fs, S(497), S(901), S(87))
        title_font == get_montserrat(fs, S(140), "regular")
        detail_font == get_merriweather(fs, S(47), FALSE)
        title_lines == Split(ReplaceEscapedNewline(title), "\n")
        warnings == illust.warnings \o logo.warnings
        upto_logo == BaseLayers(illust.ops, dividers, logo.ops)
        upto_title == upto_logo
            \o StackedText(S(42), S(140), title_lines, S(115), title_font,
                           COLORS.black)
        location_lines == LocationLines(location, detail_font, S(500))
    IN  IF ~title_font.ok THEN Outcome(FALSE, upto_logo, warnings)
        ELSE IF ~detail_font.ok THEN Outcome(FALSE, upto_title, warnings)
        ELSE Outcome(TRUE,
                upto_title
                \o draw_icon("calendar", S(42), S(486), S(52), amber_canva)
                \o <<Text(S(109), S(480), date, detail_font, amber_canva)>>
                \o draw_icon("clock", S(42), S(613), S(52), amber_canva)
                \o <<Text(S(109), S(603), time, detail_font, amber_canva)>>
                \o draw_icon("location", S(42), S(726), S(52), amber_canva)
                \o StackedText(S(109), S(726), location_lines, S(50),
                               detail_font, amber_canva),
                warnings)

----------------------------------------------------------------------------
(* LAYOUT: Facebook Post                                                   *)

FbOpacity == 13

create_fb_post_layout(fs, title, date, time, location, illustration_path, width, height) ==
    LET S(c) == Scaled(c, width, 1200)
        line_thickness == S(4)
        illust == IllustrationLayer(fs, illustration_path, S(50), S(20),
                                    S(545), S(595), FbOpacity)
        dividers == << Line(S(63), S(63), S(1137), S(63), amber_canva, line_thickness),
                       Line(S(63), S(560), S(1025), S(560), amber_canva, line_thickness) >>
        logo == LogoLayer(fs, S(1044), S(512), S(93))
        title_font == get_montserrat(fs, S(130), "regular")
        detail_font == get_merriweather(fs, S(34), FALSE)
        icon_size == S(36)
        title_lines == Split(ReplaceEscapedNewline(title), "\n")
        warnings == illust.warnings \o logo.warnings
        upto_logo == BaseLayers(illust.ops, dividers, logo.ops)
        upto_title == upto_logo
            \o StackedText(S(63), S(138), title_lines, S(125), title_font,
                           COLORS.black)
        location_lines == LocationLines(location, detail_font, S(430))
    IN  IF ~title_font.ok THEN Outcome(FALSE, upto_logo, warnings)
        ELSE IF ~detail_font.ok THEN Outcome(FALSE, upto_title, warnings)
        ELSE Outcome(TRUE,
                upto_title
                \o draw_icon("calendar", S(645), S(174), icon_size, amber_canva)
                \o <<Text(S(691), S(170), date, detail_font, amber_canva)>>
                \o draw_icon("clock", S(645), S(262), icon_size, amber_canva)
                \o <<Text(S(691), S(255), time, detail_font, amber_canva)>>
                \o draw_icon("location", S(645), S(339), icon_size, amber_canva)
                \o StackedText(S(691), S(339), location_lines, S(38),
                               detail_font, amber_canva),
                warnings)

----------------------------------------------------------------------------
(* create_event_graphic                                                    *)

DefaultScale == 2

\* Variant: the default of the lookup is the square post
BaseDimsSquareDefault(format_name) ==
    IF format_name \in DOMAIN FORMATS THEN FORMATS[format_name]
    ELSE FORMATS.instagram_post

\* FORMATS.get(format_name, FORMATS['ppt_4_3'])
BaseDims(format_name) ==
    IF format_name \in DOMAIN FORMATS THEN FORMATS[format_name]
    ELSE FORMATS.ppt_4_3

\* Variant: only the width is scaled
CanvasSizeWidthOnly(base, scale) == <<base[1] * scale, base[2]>>

\* width = base_width * scale; height = base_height * scale
CanvasSize(base, scale) == <<base[1] * scale, base[2] * scale>>

\* Image.new('RGB', (width, height), ...) raises ValueError on a negative side
NewImageOk(size) == size[1] >= 0 /\ size[2] >= 0

\* if / elif chain on format_name; the final else serves ppt_4_3 and any
\* other name
Dispatch(fs, title, date, time, location, illustration_path, format_name, width, height, scale) ==
    IF format_name = "instagram_story"
    THEN create_ig_story_layout(fs, title, date, time, location,
                                illustration_path, width, height)
    ELSE IF format_name = "instagram_post"
    THEN create_ig_post_layout(fs, title, date, time, location,
                               illustration_path, width, height)
    ELSE IF format_name = "facebook_post"
    THEN create_fb_post_layout(fs, title, date, time, location,
                               illustration_path, width, height)
    ELSE create_ppt_layout(fs, title, date, time, location,
                           illustration_path, width, height, scale)

\* os.path.join(BASE_DIR, 'illustrations', 'mesa_abierta_illustration.png')
IllustrationPath == "illustrations/mesa_abierta_illustration.png"

\* custom_illustration_path of generate_complete_graphic
CustomIllustrationPath == "custom/art.png"

OutputPrefixes == {"event", "misa"}

\* os.path.join(OUTPUT_DIR, f'{output_prefix}_{format_name}.png')
OutputFile(output_prefix, format_name) ==
    CASE output_prefix = "event" /\ format_name = "ppt_4_3" -> "output/event_ppt_4_3.png"
      [] output_prefix = "event" /\ format_name = "instagram_post" -> "output/event_instagram_post.png"
      [] output_prefix = "event" /\ format_name = "instagram_story" -> "output/event_instagram_story.png"
      [] output_prefix = "event" /\ format_name = "facebook_post" -> "output/event_facebook_post.png"
      [] output_prefix = "event" /\ format_name = "unknown_format" -> "output/event_unknown_format.png"
      [] output_prefix = "misa" /\ format_name = "ppt_4_3" -> "output/misa_ppt_4_3.png"
      [] output_prefix = "misa" /\ format_name = "instagram_post" -> "output/misa_instagram_post.png"
      [] output_prefix = "misa" /\ format_name = "instagram_story" -> "output/misa_instagram_story.png"
      [] output_prefix = "misa" /\ format_name = "facebook_post" -> "output/misa_facebook_post.png"
      [] output_prefix = "misa" /\ format_name = "unknown_format" -> "output/misa_unknown_format.png"

\* The files generate_illustration saves on success: f"{base_name}_{i}.png"
OptionPaths(cached_path) ==
    CASE cached_path = IllustrationPath ->
           {"illustrations/mesa_abierta_illustration_1.png",
            "illustrations/mesa_abierta_illustration_2.png",
            "illustrations/mesa_abierta_illustration_3.png",
            "illustrations/mesa_abierta_illustration_4.png"}

BatchOutputPaths ==
    {OutputFile(output_prefix, format_name) :
       output_prefix \in OutputPrefixes,
       format_name \in DOMAIN FORMATS \cup {"unknown_format"}}

\* os.path.dirname(output_path)
DirName(path) ==
    IF path \in {"output/event.png"} \cup BatchOutputPaths THEN "output"
    ELSE ""

\* os.makedirs(dirname, exist_ok=True) raises FileNotFoundError on ''
MakeDirsOk(dirname) == dirname # ""

\* Outcome of one call:
\*   status    "ok" when the call returned, else the exception that left it
\*   size      canvas size in pixels
\*   ops       what was drawn on the canvas
\*   warnings  warnings printed
\*   returned  the raster was returned to the caller
\*   written   the file at output_path was written
Result(status, size, ops, warnings, written) ==
    [status |-> status, size |-> size, ops |-> ops, warnings |-> warnings,
     returned |-> (status = "ok"), written |-> written]

\* Variant: a file already present at output_path is opened as the canvas
create_event_graphic_reuse(fs, title, date, time, location, illustration_path, format_name, output_path, scale) ==
    LET size == CanvasSize(BaseDims(format_name), scale)
        layout == Dispatch(fs, title, date, time, location, illustration_path,
                           format_name, size[1], size[2], scale)
        canvas == IF Truthy(output_path) /\ Exists(fs, output_path)
                  THEN <<Op("paste", <<0, 0, size[1], size[2]>>, 0, <<>>,
                            output_path, <<>>, 100)>>
                  ELSE <<>>
    IN  IF ~NewImageOk(size) THEN Result("ValueError", size, <<>>, <<>>, FALSE)
        ELSE IF ~layout.ok
        THEN Result("OSError", size, canvas \o layout.ops, layout.warnings, FALSE)
        ELSE IF ~Truthy(output_path)
        THEN Result("ok", size, canvas \o layout.ops, layout.warnings, FALSE)
        ELSE IF ~MakeDirsOk(DirName(output_path))
        THEN Result("FileNotFoundError", size, canvas \o layout.ops,
                    layout.warnings, FALSE)
        ELSE Result("ok", size, canvas \o layout.ops, layout.warnings, TRUE)

create_event_graphic(fs, title, date, time, location, illustration_path, format_name, output_path, scale) ==
    LET size == CanvasSize(BaseDims(format_name), scale)
        layout == Dispatch(fs, title, date, time, location, illustration_path,
                           format_name, size[1], size[2], scale)
    IN  IF ~NewImageOk(size) THEN Result("ValueError", size, <<>>, <<>>, FALSE)
        ELSE IF ~layout.ok
        THEN Result("OSError", size, layout.ops, layout.warnings, FALSE)
        ELSE IF ~Truthy(output_path)
        THEN Result("ok", size, layout.ops, layout.warnings, FALSE)
        ELSE IF ~MakeDirsOk(DirName(output_path))
        THEN Result("FileNotFoundError", size, layout.ops, layout.warnings, FALSE)
        ELSE Result("ok", size, layout.ops, layout.warnings, TRUE)

\* The raster a call hands back: canvas size and what was drawn on it
Raster(result) == [size |-> result.size, ops |-> result.ops]

----------------------------------------------------------------------------
(* Inputs                                                                  *)

\* Every caller in the repository passes a path inside a directory
\* (test_template, generate_complete_graphic) or no path
OutputPaths == {None, "output/event.png"}

IllustrationPaths == {None, IllustrationPath}

Paths ==
    FontPaths \cup {LOGO_PATH, IllustrationPath, "output/event.png"}
    \cup {CustomIllustrationPath} \cup OptionPaths(IllustrationPath)
    \cup BatchOutputPaths

Events == { [title |-> <<"L", "a">>, date |-> <<"9">>, time |-> <<"7">>,
             location |-> <<"m", "i">>],
            [title |-> <<"L", "a", "\n", "A", "b">>,
             date |-> <<"m", "m", "m", "m", "m", "m", "m", " ",
                        "m", "m", "m", "m", "m", "m", "m", "m">>,
             time |-> <<"7">>,
             location |-> <<"m", "m", "m", "m", "m", "m", "m", " ",
                            "m", "m", "m", "m", "m", "m", "m", "m">>] }

RequestedFormats == FormatNames \cup {"unknown_format"}

\* scale argument: <<>> when omitted (the default applies), else <<scale>>;
\* the parameter is an unchecked int, so zero and a negative value are passed
\* through as well
ScaleArgs == {<<>>} \cup {<<k>> : k \in (0 - 1)..MaxScale}

ScaleOf(scale_arg) == IF scale_arg = <<>> THEN DefaultScale ELSE scale_arg[1]

\* Font installations: all files, bundled only, system only, Montserrat
\* with its fallback only, none
FontSets == { FontPaths,
              {MontserratLight, MontserratRegular, MerriweatherItalic,
               MerriweatherRegular},
              {HelveticaFallback, GeorgiaFallback},
              {MontserratLight, MontserratRegular, HelveticaFallback},
              {} }

AssetKinds == {"absent", "corrupt", "image"}

InitialFiles ==
    { [p \in Paths |->
         IF p \in FontPaths THEN (IF p \in fonts THEN "font" ELSE "absent")
         ELSE IF p = LOGO_PATH THEN logo
         ELSE IF p = IllustrationPath THEN illustration
         ELSE "absent"] :
      fonts \in FontSets, logo \in AssetKinds, illustration \in AssetKinds }

NoCall == [called |-> FALSE]

----------------------------------------------------------------------------
(* The renderer as a state machine: each step is one render call            *)

Init ==
    /\ files \in InitialFiles
    /\ last = NoCall
    /\ wrap = [called |-> FALSE]
    /\ px = [called |-> FALSE]
    /\ icon = NoCall
    /\ fontreq = NoCall
    /\ batch = NoCall
    /\ calls = <<>>
    /\ placed = NoCall

\* The exploration is bounded to sessions that render one request (event,
\* illustration, format, scale) one or more times, to any output path; what
\* earlier calls leave behind is the files they wrote
SameRequest(ev, illustration_path, format_name, scale_arg) ==
    /\ last.event = ev
    /\ last.illustration_path = illustration_path
    /\ last.format_name = format_name
    /\ last.scale_arg = scale_arg

Render ==
    \E ev \in Events, illustration_path \in IllustrationPaths,
       format_name \in RequestedFormats, output_path \in OutputPaths,
       scale_arg \in ScaleArgs :
        /\ last.called => SameRequest(ev, illustration_path, format_name, scale_arg)
        /\ LET result == create_event_graphic(files, ev.title, ev.date, ev.time,
                              ev.location, illustration_path, format_name,
                              output_path, ScaleOf(scale_arg))
           IN  /\ last' = [called |-> TRUE, event |-> ev,
                           illustration_path |-> illustration_path,
                           format_name |-> format_name,
                           output_path |-> output_path,
                           scale_arg |-> scale_arg,
                           scale |-> ScaleOf(scale_arg),
                           result |-> result]
               /\ files' = IF result.written
                           THEN [files EXCEPT ![output_path] = "image"]
                           ELSE files
        /\ UNCHANGED <<wrap, px, icon, fontreq, batch, calls, placed>>

Next == Render

Spec == Init /\ [][Next]_vars

----------------------------------------------------------------------------
(* generate_complete_graphic                                               *)

\* Keys of EVENT_PROMPTS
EVENT_PROMPTS ==
    {"mesa_abierta", "culto_dominical", "estudio_biblico", "retiro",
     "navidad", "cuaresma", "pascua", "bautismo", "comunidad", "musica",
     "oracion", "generic"}

\* os.path.join(ILLUSTRATIONS_DIR, f'{event_type}_illustration.png')
CachedPath(event_type) ==
    CASE event_type = "mesa_abierta" -> IllustrationPath

\* What a call of generate_illustration(event_type, output_path=cached_path)
\* can do, depending on the remote service:
\*   "options"      the images come back and are saved as <base>_1..4.png
\*   "placeholder"  the image model fails, the text model answers and a grey
\*                  placeholder is saved at cached_path
\*   "raised"       an exception leaves the function
GenerationOutcomes == {"options", "placeholder", "raised"}

generate_illustration(fs, cached_path, outcome) ==
    IF outcome = "options"
    THEN [p \in DOMAIN fs |->
            IF p \in OptionPaths(cached_path) THEN "image" ELSE fs[p]]
    ELSE IF outcome = "placeholder"
    THEN [fs EXCEPT ![cached_path] = "image"]
    ELSE fs

\* Lines 68-95: the illustration handed to the renderer, the files after
\* the selection, and whether the generator was called
SelectIllustration(fs, event_type, use_cached_illustration, custom_illustration_path, api_key, outcome) ==
    IF Truthy(custom_illustration_path) /\ Exists(fs, custom_illustration_path)
    THEN [illustration_path |-> custom_illustration_path, files |-> fs,
          generated |-> FALSE]
    ELSE IF event_type \in EVENT_PROMPTS
    THEN LET cached_path == CachedPath(event_type) IN
         IF use_cached_illustration /\ Exists(fs, cached_path)
         THEN [illustration_path |-> cached_path, files |-> fs,
               generated |-> FALSE]
         ELSE IF api_key
         THEN [illustration_path |->
                   IF outcome = "raised" THEN None ELSE cached_path,
               files |-> generate_illustration(fs, cached_path, outcome),
               generated |-> TRUE]
         ELSE [illustration_path |-> None, files |-> fs, generated |-> FALSE]
    ELSE [illustration_path |-> None, files |-> fs, generated |-> FALSE]

\* if formats is None: formats = list(FORMATS.keys())
\* formats_arg is <<>> when the argument is omitted, else <<list>>
FormatsOf(formats_arg) ==
    IF formats_arg = <<>>
    THEN <<"ppt_4_3", "instagram_post", "instagram_story", "facebook_post">>
    ELSE formats_arg[1]

\* if format_name not in FORMATS: print warning; continue
KnownFormat(format_name) == format_name \in DOMAIN FORMATS

\* Inputs of the batch
EventTypes == {"mesa_abierta", "fiesta"}

FormatLists ==
    { <<>>,
      << <<"ppt_4_3">> >>,
      << <<"ppt_4_3", "instagram_story">> >>,
      << <<"facebook_post", "unknown_format">> >>,
      << <<"unknown_format", "instagram_story">> >>,
      << <<"instagram_post", "facebook_post", "instagram_post">> >> }

\* Font installations of the batch: everything, the slide's two bundled
\* fonts only, nothing
BatchFontSets == { FontPaths, {MontserratLight, MerriweatherItalic}, {} }

BatchFiles ==
    { [p \in Paths |->
         IF p \in FontPaths THEN (IF p \in fonts THEN "font" ELSE "absent")
         ELSE IF p = LOGO_PATH THEN "image"
         ELSE IF p = IllustrationPath THEN cached
         ELSE IF p = CustomIllustrationPath THEN custom
         ELSE "absent"] :
      fonts \in BatchFontSets, cached \in {"absent", "image"},
      custom \in {"absent", "image"} }

BatchInit ==
    /\ files \in BatchFiles
    /\ batch = NoCall
    /\ last = NoCall
    /\ wrap = [called |-> FALSE]
    /\ px = [called |-> FALSE]
    /\ icon = NoCall
    /\ fontreq = NoCall
    /\ calls = <<>>
    /\ placed = NoCall

\* A call of generate_complete_graphic up to its format loop: the
\* directories are made, the format list defaults and the illustration is
\* chosen (lines 60-98)
StartBatch ==
    \E ev \in Events, event_type \in EventTypes, formats_arg \in FormatLists,
       use_cached_illustration \in BOOLEAN,
       custom_illustration_path \in {None, CustomIllustrationPath},
       output_prefix \in OutputPrefixes, api_key \in BOOLEAN,
       outcome \in GenerationOutcomes :
        /\ ~batch.called
        /\ LET sel == SelectIllustration(files, event_type,
                          use_cached_illustration, custom_illustration_path,
                          api_key, outcome)
           IN  /\ batch' = [called |-> TRUE, pc |-> "loop", event |-> ev,
                            event_type |-> event_type,
                            formats |-> FormatsOf(formats_arg), i |-> 1,
                            use_cached_illustration |-> use_cached_illustration,
                            custom_illustration_path |-> custom_illustration_path,
                            output_prefix |-> output_prefix,
                            api_key |-> api_key,
                            illustration_path |-> sel.illustration_path,
                            generated |-> sel.generated,
                            status |-> "running", results |-> {},
                            written |-> {}, skipped |-> {},
                            passed |-> {}, before |-> files]
               /\ files' = sel.files
        /\ UNCHANGED <<last, wrap, px, icon, fontreq, calls, placed>>

\* Loop body, unknown format: a warning is printed and the loop continues
SkipFormat ==
    /\ batch.called
    /\ batch.pc = "loop"
    /\ batch.i <= Len(batch.formats)
    /\ ~KnownFormat(batch.formats[batch.i])
    /\ batch' = [batch EXCEPT !.i = @ + 1,
                              !.skipped = @ \cup {batch.formats[batch.i]}]
    /\ UNCHANGED <<files, last, wrap, px, icon, fontreq, calls, placed>>

\* Loop body, known format: the graphic is rendered to
\* <prefix>_<format>.png and entered in results (a dict: one entry per
\* key); an exception of create_event_graphic leaves the function
RenderFormat ==
    /\ batch.called
    /\ batch.pc = "loop"
    /\ batch.i <= Len(batch.formats)
    /\ KnownFormat(batch.formats[batch.i])
    /\ LET format_name == batch.formats[batch.i]
           output_path == OutputFile(batch.output_prefix, format_name)
           ev == batch.event
           img == create_event_graphic(files, ev.title, ev.date, ev.time,
                      ev.location, batch.illustration_path, format_name,
                      output_path, DefaultScale)
       IN  IF img.returned
           THEN /\ batch' = [batch EXCEPT
                               !.i = @ + 1,
                               !.passed = @ \cup {batch.illustration_path},
                               !.written = @ \cup {output_path},
                               !.results = {e \in @ : e[1] # format_name}
                                           \cup {<<format_name, output_path>>}]
                /\ files' = [files EXCEPT ![output_path] = "image"]
           ELSE /\ batch' = [batch EXCEPT !.pc = "raised",
                                          !.status = img.status,
                                          !.passed = @ \cup {batch.illustration_path},
                                          !.results = {}]
                /\ UNCHANGED files
    /\ UNCHANGED <<last, wrap, px, icon, fontreq, calls, placed>>

\* return results
ReturnResults ==
    /\ batch.called
    /\ batch.pc = "loop"
    /\ batch.i > Len(batch.formats)
    /\ batch' = [batch EXCEPT !.pc = "returned", !.status = "ok"]
    /\ UNCHANGED <<files, last, wrap, px, icon, fontreq, calls, placed>>

BatchNext ==
    \/ StartBatch
    \/ SkipFormat
    \/ RenderFormat
    \/ ReturnResults

BatchSpec == BatchInit /\ [][BatchNext]_vars

----------------------------------------------------------------------------
(* Concurrent render calls: each call of create_event_graphic advances one  *)
(* statement at a time (canvas allocation, one drawing operation, the end   *)
(* of the layout function, the save), interleaved with the other calls      *)

CallIds == {1, 2}

\* The files the renderer reads
AssetPaths == FontPaths \cup {LOGO_PATH, IllustrationPath}

ConcFormats == {"ppt_4_3", "instagram_story"}

ConcFontSets == { FontPaths, {MontserratLight, MontserratRegular} }

ConcFiles ==
    { [p \in Paths |->
         IF p \in FontPaths THEN (IF p \in fonts THEN "font" ELSE "absent")
         ELSE IF p = LOGO_PATH THEN logo
         ELSE IF p = IllustrationPath THEN "image"
         ELSE "absent"] :
      fonts \in ConcFontSets, logo \in {"image", "corrupt"} }

\* The layout function of call c, evaluated on the files as they are now
LayoutOf(fs, call) ==
    LET ev == CHOOSE e \in Events : e.title = <<"L", "a">>
        size == CanvasSize(BaseDims(call.format_name), call.scale)
    IN  Dispatch(fs, ev.title, ev.date, ev.time, ev.location,
                 call.illustration_path, call.format_name, size[1], size[2],
                 call.scale)

\* Variant: the canvas is one module-level image that every call draws on
DrawOnShared(cs, c, op) ==
    [d \in DOMAIN cs |->
       IF cs[d].pc = "layout" THEN [cs[d] EXCEPT !.canvas = Append(@, op)]
       ELSE cs[d]]

\* draw = ImageDraw.Draw(img): a drawing operation lands on the canvas the
\* call allocated itself
DrawOn(cs, c, op) == [cs EXCEPT ![c].canvas = Append(@, op)]

ConcInit ==
    /\ files \in ConcFiles
    /\ calls \in [CallIds ->
                    { [pc |-> "start", format_name |-> f,
                       illustration_path |-> IllustrationPath,
                       output_path |-> o, scale |-> DefaultScale,
                       canvas |-> <<>>] :
                      f \in ConcFormats, o \in OutputPaths }]
    /\ last = NoCall
    /\ wrap = [called |-> FALSE]
    /\ px = [called |-> FALSE]
    /\ icon = NoCall
    /\ placed = NoCall
    /\ fontreq = NoCall
    /\ batch = NoCall

\* img = Image.new('RGB', (width, height), COLORS['white'])
NewCanvas(c) ==
    /\ calls[c].pc = "start"
    /\ calls' = [calls EXCEPT ![c].pc = "layout", ![c].canvas = <<>>]
    /\ UNCHANGED <<files, last, wrap, px, icon, fontreq, batch, placed>>

\* The next drawing operation of the layout function
DrawStep(c) ==
    /\ calls[c].pc = "layout"
    /\ LET ops == LayoutOf(files, calls[c]).ops
           k == Len(calls[c].canvas)
       IN  /\ k < Len(ops)
           /\ calls' = DrawOn(calls, c, ops[k + 1])
    /\ UNCHANGED <<files, last, wrap, px, icon, fontreq, batch, placed>>

\* The layout function returns, or an exception leaves the call
EndLayout(c) ==
    /\ calls[c].pc = "layout"
    /\ LET layout == LayoutOf(files, calls[c])
       IN  /\ Len(calls[c].canvas) >= Len(layout.ops)
           /\ calls' = [calls EXCEPT
                          ![c].pc = IF layout.ok THEN "save" ELSE "failed"]
    /\ UNCHANGED <<files, last, wrap, px, icon, fontreq, batch, placed>>

\* if output_path: os.makedirs(...); img.save(...); then return img
SaveAndReturn(c) ==
    /\ calls[c].pc = "save"
    /\ LET output_path == calls[c].output_path
           saves == Truthy(output_path)
       IN  IF saves /\ ~MakeDirsOk(DirName(output_path))
           THEN /\ calls' = [calls EXCEPT ![c].pc = "failed"]
                /\ UNCHANGED files
           ELSE /\ calls' = [calls EXCEPT ![c].pc = "done"]
                /\ files' = IF saves
                            THEN [files EXCEPT ![output_path] = "image"]
                            ELSE files
    /\ UNCHANGED <<last, wrap, px, icon, fontreq, batch, placed>>

ConcNext ==
    \E c \in CallIds :
        \/ NewCanvas(c)
        \/ DrawStep(c)
        \/ EndLayout(c)
        \/ SaveAndReturn(c)

ConcSpec == ConcInit /\ [][ConcNext]_vars

----------------------------------------------------------------------------
(* Font resolution as a function of the request and the installed fonts    *)

\* The requests the layouts make: family and variant
FontRequests ==
    { [family |-> "montserrat", variant |-> "light"],
      [family |-> "montserrat", variant |-> "regular"],
      [family |-> "merriweather", variant |-> "italic"],
      [family |-> "merriweather", variant |-> "regular"] }

\* Pixel sizes of the slide's detail and title fonts at scale 1
FontSizes == {31, 115}

\* Every combination of present and absent font files
FontInstallations ==
    { [p \in Paths |-> IF p \in fonts THEN "font" ELSE "absent"] :
      fonts \in SUBSET FontPaths }

\* The provider a request goes to
ResolveFont(fs, request, size) ==
    IF request.family = "montserrat"
    THEN get_montserrat(fs, size, request.variant)
    ELSE get_merriweather(fs, size, request.variant = "italic")

FontInit ==
    /\ files \in FontInstallations
    /\ fontreq \in { [called |-> FALSE, request |-> r, size |-> sz,
                      result |-> [ok |-> FALSE, path |-> None, size |-> 0]] :
                     r \in FontRequests, sz \in FontSizes }
    /\ last = NoCall
    /\ wrap = [called |-> FALSE]
    /\ px = [called |-> FALSE]
    /\ icon = NoCall
    /\ batch = NoCall
    /\ calls = <<>>
    /\ placed = NoCall

\* One call of get_montserrat or get_merriweather
RequestFont ==
    /\ ~fontreq.called
    /\ fontreq' = [fontreq EXCEPT
                     !.called = TRUE,
                     !.result = ResolveFont(files, fontreq.request,
                                            fontreq.size)]
    /\ UNCHANGED <<files, last, wrap, px, icon, batch, calls, placed>>

FontNext == RequestFont

FontSpec == FontInit /\ [][FontNext]_vars

----------------------------------------------------------------------------
(* The three font providers on arbitrary sizes and installations           *)

\* Requests to get_font: its three chains and a name it does not know
MockupFontNames == {"serif", "sans", "light", "display"}

ProviderRequests ==
    FontRequests \cup { [family |-> "get_font", variant |-> n] :
                        n \in MockupFontNames }

\* Requested sizes as <<whole pixels, tenths>>: negative, zero, fractional
\* below one, fractional below the minimum, and the slide's detail size
RequestedSizes == {<<0 - 1, 0>>, <<0, 0>>, <<0, 5>>, <<9, 5>>, <<31, 0>>}

AllFontPaths == FontPaths \cup MockupFontPaths

\* Every combination of present and absent font files, with Georgia
\* readable or not when present
ProviderInstallations ==
    { [p \in AllFontPaths |->
         IF p \notin fonts THEN "absent"
         ELSE IF p = GeorgiaFallback /\ georgia_corrupt THEN "corrupt"
         ELSE "font"] :
      fonts \in SUBSET AllFontPaths, georgia_corrupt \in BOOLEAN }

\* The file a request asks for first
PrimaryPath(request) ==
    IF request.family = "montserrat"
    THEN IF request.variant = "light" THEN MontserratLight
         ELSE MontserratRegular
    ELSE IF request.family = "merriweather"
    THEN IF request.variant = "italic" THEN MerriweatherItalic
         ELSE MerriweatherRegular
    ELSE font_paths(request.variant)[1]

\* The provider a request goes to; the renderer's two providers are called
\* with whole pixel sizes
Provide(fs, request, size) ==
    IF request.family = "get_font"
    THEN get_font(fs, request.variant, size[1], size[2])
    ELSE ResolveFont(fs, request, size[1])

\* The calls made: a request and a size
ProviderCalls ==
    { c \in ProviderRequests \X RequestedSizes :
        c[1].family = "get_font" \/ c[2][2] = 0 }

ProviderInit ==
    /\ files \in ProviderInstallations
    /\ fontreq \in { [called |-> FALSE, request |-> c[1], size |-> c[2],
                      result |-> [ok |-> FALSE, path |-> None, size |-> 0],
                      printed |-> <<>>] :
                     c \in ProviderCalls }
    /\ last = NoCall
    /\ wrap = [called |-> FALSE]
    /\ px = [called |-> FALSE]
    /\ icon = NoCall
    /\ batch = NoCall
    /\ calls = <<>>
    /\ placed = NoCall

\* One call of get_montserrat, get_merriweather or get_font; none of the
\* three contains a print or a logging call
ProvideFont ==
    /\ ~fontreq.called
    /\ fontreq' = [fontreq EXCEPT
                     !.called = TRUE,
                     !.result = Provide(files, fontreq.request, fontreq.size),
                     !.printed = <<>>]
    /\ UNCHANGED <<files, last, wrap, px, icon, batch, calls, placed>>

ProviderNext == ProvideFont

ProviderSpec == ProviderInit /\ [][ProviderNext]_vars

----------------------------------------------------------------------------
(* wrap_text as a function of its inputs                                   *)

WrapAlphabet == {"i", "m", " ", "\t"}

WrapTexts == UNION { [1..n -> WrapAlphabet] : n \in 0..MaxTextLen }

WrapFontSizes == {10, 20}

WrapWidths == { 3 * k : k \in 0..MaxWrapWidth }

\* A checkout with the bundled fonts and no other asset
BundledFonts ==
    [p \in Paths |-> IF p \in FontPaths THEN "font" ELSE "absent"]

\* The font the detail rows are wrapped with
WrapFont(size) == get_merriweather(BundledFonts, size, FALSE)

WrapInit ==
    /\ wrap \in { [called |-> FALSE, text |-> t, font |-> WrapFont(sz),
                   max_width |-> mw, lines |-> <<>>] :
                  t \in WrapTexts, sz \in WrapFontSizes, mw \in WrapWidths }
    /\ files = BundledFonts
    /\ last = NoCall
    /\ px = [called |-> FALSE]
    /\ icon = NoCall
    /\ fontreq = NoCall
    /\ batch = NoCall
    /\ calls = <<>>
    /\ placed = NoCall

WrapText ==
    /\ ~wrap.called
    /\ wrap' = [wrap EXCEPT !.called = TRUE,
                            !.lines = wrap_text(wrap.text, wrap.font,
                                                wrap.max_width)]
    /\ UNCHANGED <<files, last, px, icon, fontreq, batch, calls, placed>>

WrapNext == WrapText

WrapSpec == WrapInit /\ [][WrapNext]_vars

----------------------------------------------------------------------------
(* The opacity step as a function of its inputs                            *)

AlphaInit ==
    /\ px \in { [called |-> FALSE, a |-> a, pct |-> pct, mask |-> a] :
                a \in 0..255, pct \in 0..100 }
    /\ files = BundledFonts
    /\ last = NoCall
    /\ wrap = [called |-> FALSE]
    /\ icon = NoCall
    /\ fontreq = NoCall
    /\ batch = NoCall
    /\ calls = <<>>
    /\ placed = NoCall

ApplyOpacity ==
    /\ ~px.called
    /\ px' = [px EXCEPT !.called = TRUE, !.mask = PointOpacity(px.a, px.pct)]
    /\ UNCHANGED <<files, last, wrap, icon, fontreq, batch, calls, placed>>

AlphaNext == ApplyOpacity

AlphaSpec == AlphaInit /\ [][AlphaNext]_vars

----------------------------------------------------------------------------
(* draw_icon as a function of its inputs                                   *)

IconTypes == {"calendar", "clock", "location"}

\* Icon types a caller can pass: the three drawn ones and one that is not
RequestedIconTypes == IconTypes \cup {"star"}

IconOrigins == {0, 75}

IconSizes == 0..MaxIconSize

IconInit ==
    /\ icon \in { [called |-> FALSE, icon_type |-> t, x |-> x, y |-> y,
                   size |-> sz, status |-> "idle", ops |-> <<>>] :
                  t \in RequestedIconTypes, x \in IconOrigins,
                  y \in IconOrigins, sz \in IconSizes }
    /\ files = BundledFonts
    /\ last = NoCall
    /\ wrap = [called |-> FALSE]
    /\ px = [called |-> FALSE]
    /\ fontreq = NoCall
    /\ batch = NoCall
    /\ calls = <<>>
    /\ placed = NoCall

\* One call of draw_icon: no branch of the function raises and there is no
\* else branch, so the call returns None whatever the icon type
DrawIcon ==
    /\ ~icon.called
    /\ icon' = [icon EXCEPT !.called = TRUE,
                            !.status = "ok",
                            !.ops = draw_icon(icon.icon_type, icon.x, icon.y,
                                              icon.size, amber_canva)]
    /\ UNCHANGED <<files, last, wrap, px, fontreq, batch, calls, placed>>

IconNext == DrawIcon

IconSpec == IconInit /\ [][IconNext]_vars

----------------------------------------------------------------------------
(* add_illustration: aspect-preserving fit and anchor policies             *)
(* Fractions are written as percentages: max_width_pct = 40 is 0.4.  On    *)
(* the sizes enumerated below int() of each floating-point product or      *)
(* quotient equals the exact floor, so floors of exact quotients are used. *)

\* int(width * max_width_pct), int(height * max_height_pct)
MaxSide(side, pct) == (side * pct) \div 100

\* if illust_ratio > max_width / max_height, with illust_ratio = iw / ih
WiderThanBox(iw, ih, max_width, max_height) == iw * max_height > max_width * ih

\* (new_width, new_height) of the aspect-preserving branch pair
FitSize(iw, ih, max_width, max_height) ==
    IF WiderThanBox(iw, ih, max_width, max_height)
    THEN <<max_width, (max_width * ih) \div iw>>
    ELSE <<(max_height * iw) \div ih, max_height>>

\* margin = int(min(width, height) * 0.05)
Margin(width, height) == ((IF width <= height THEN width ELSE height) * 5) \div 100

\* int(new_width * 0.2), int(new_width * 0.15), int(new_height * 0.1)
Fraction(n, pct) == (n * pct) \div 100

Positions ==
    {"right_edge", "bottom_right", "bottom_full", "right", "bottom",
     "bottom_edge", "center", "left", "top_left"}

\* Variant: the right_edge policy stays flush with the edge
PasteOriginFlush(position, width, height, new_width, new_height) ==
    <<width - new_width, (height - new_height) \div 2>>

\* (illust_x, illust_y) of the if / elif chain on position; a position that
\* matches no branch is placed at the top left margin
PasteOrigin(position, width, height, new_width, new_height) ==
    LET margin == Margin(width, height) IN
    CASE position = "right_edge" ->
            <<width - new_width + Fraction(new_width, 20),
              (height - new_height) \div 2>>
      [] position = "bottom_right" ->
            <<width - new_width + Fraction(new_width, 15),
              height - new_height + Fraction(new_height, 15)>>
      [] position = "bottom_full" ->
            <<(width - new_width) \div 2,
              height - new_height + Fraction(new_height, 20)>>
      [] position = "right" ->
            <<width - margin - new_width, (height - new_height) \div 2>>
      [] position = "bottom" ->
            <<(width - new_width) \div 2, height - new_height - margin>>
      [] position = "bottom_edge" ->
            <<(width - new_width) \div 2,
              height - new_height + Fraction(new_height, 10)>>
      [] position = "center" ->
            <<(width - new_width) \div 2, (height - new_height) \div 2>>
      [] position = "left" ->
            <<margin, (height - new_height) \div 2>>
      [] OTHER -> <<margin, margin>>

NotPlaced == [status |-> "warning", new_width |-> 0, new_height |-> 0,
              illust_x |-> 0, illust_y |-> 0]

\* The whole body runs inside try ... except Exception, which prints a
\* warning and pastes nothing: Image.open fails on a missing or undecodable
\* file, max_width / max_height divides by zero when the box has no height,
\* and resize raises ValueError unless both new sides are positive
add_illustration(fs, illustration_path, iw, ih, width, height, position, max_width_pct, max_height_pct) ==
    LET max_width == MaxSide(width, max_width_pct)
        max_height == MaxSide(height, max_height_pct)
        new_size == FitSize(iw, ih, max_width, max_height)
        origin == PasteOrigin(position, width, height, new_size[1], new_size[2])
    IN  IF ~Decodable(fs, illustration_path) THEN NotPlaced
        ELSE IF max_height = 0 THEN NotPlaced
        ELSE IF ~Resizable(new_size[1], new_size[2]) THEN NotPlaced
        ELSE [status |-> "pasted", new_width |-> new_size[1],
              new_height |-> new_size[2], illust_x |-> origin[1],
              illust_y |-> origin[2]]

AssetSides == 1..MaxAssetSide

\* (width, height) of the canvases: two degenerate ones, two small ones and
\* the slide and story base sizes
CanvasSizes ==
    {<<1, 1>>, <<10, 10>>, <<20, 8>>, <<30, 40>>, <<1024, 768>>, <<1080, 1920>>}

\* (max_width_pct, max_height_pct): the defaults 0.4 / 0.5 and 0.6 / 0.8
BoxPercents == {<<40, 50>>, <<60, 80>>}

PlaceFiles ==
    { [q \in Paths |-> IF q = IllustrationPath THEN k ELSE "absent"] :
      k \in {"image", "absent"} }

PlaceInit ==
    /\ files \in PlaceFiles
    /\ placed \in { [called |-> FALSE, iw |-> iw, ih |-> ih,
                     width |-> c[1], height |-> c[2], position |-> pos,
                     max_width_pct |-> b[1], max_height_pct |-> b[2],
                     result |-> NotPlaced] :
                    iw \in AssetSides, ih \in AssetSides, c \in CanvasSizes,
                    pos \in Positions, b \in BoxPercents }
    /\ last = NoCall
    /\ wrap = [called |-> FALSE]
    /\ px = [called |-> FALSE]
    /\ icon = NoCall
    /\ fontreq = NoCall
    /\ batch = NoCall
    /\ calls = <<>>

\* One call of add_illustration
AddIllustration ==
    /\ ~placed.called
    /\ placed' = [placed EXCEPT
                    !.called = TRUE,
                    !.result = add_illustration(files, IllustrationPath,
                                   placed.iw, placed.ih, placed.width,
                                   placed.height, placed.position,
                                   placed.max_width_pct,
                                   placed.max_height_pct)]
    /\ UNCHANGED <<files, last, wrap, px, icon, fontreq, batch, calls>>

PlaceNext == AddIllustration

PlaceSpec == PlaceInit /\ [][PlaceNext]_vars

----------------------------------------------------------------------------
(* Claims                                                                  *)

Registered(format_name) == format_name \in FormatNames

\* The call of the last record, re-evaluated on file system fs with the
\* given illustration path, format and scale
Replay(fs, illustration_path, format_name, scale) ==
    create_event_graphic(fs, last'.event.title, last'.event.date,
                         last'.event.time, last'.event.location,
                         illustration_path, format_name, last'.output_path,
                         scale)

C2_CanvasDimensions ==
    (last.called /\ Registered(last.format_name) /\ last.result.returned)
        => LET f == last.format_name
               k == IF last.scale_arg = <<>> THEN 2 ELSE last.scale_arg[1]
               bw == CASE f = "ppt_4_3" -> 1024
                       [] f = "instagram_post" -> 1080
                       [] f = "instagram_story" -> 1080
                       [] f = "facebook_post" -> 1200
               bh == CASE f = "ppt_4_3" -> 768
                       [] f = "instagram_post" -> 1080
                       [] f = "instagram_story" -> 1920
                       [] f = "facebook_post" -> 630
           IN  Raster(last.result).size = <<bw * k, bh * k>>

C2_Witness ==
    /\ last.called
    /\ last.format_name = "ppt_4_3"
    /\ last.scale_arg = <<>>
    /\ last.result.returned
    /\ last.result.size = <<2048, 1536>>

IsIllustrationPaste(op) == op.kind = "paste" /\ op.tag # LOGO_PATH

\* C3: rendering with an illustration path that names a nonexistent file
\* produces exactly the same raster as rendering with no illustration path:
\* no illustration is pasted and every other layer is drawn identically.
C3_MissingIllustrationSameAsNone ==
    [][ (/\ last'.called
         /\ last'.illustration_path # None
         /\ ~Exists(files, last'.illustration_path))
          => LET without == Replay(files, None, last'.format_name, last'.scale)
             IN  /\ Raster(last'.result) = Raster(without)
                 /\ last'.result.returned = without.returned
                 /\ \A i \in 1..Len(last'.result.ops) :
                        ~IsIllustrationPaste(last'.result.ops[i]) ]_vars

C3_Witness ==
    /\ last.called
    /\ last.illustration_path # None
    /\ ~Exists(files, last.illustration_path)
    /\ last.result.returned
    /\ Len(last.result.ops) > 0

IsLogoPaste(op) == op.kind = "paste" /\ op.tag = LOGO_PATH

IllustrationPastes(ops) == {i \in 1..Len(ops) : IsIllustrationPaste(ops[i])}

LogoPastes(ops) == {i \in 1..Len(ops) : IsLogoPaste(ops[i])}

IsTitleText(op) == op.kind = "text" /\ op.color = COLORS.black

IsDetailText(op) == op.kind = "text" /\ op.color = amber_canva

IsIconShape(op) == op.kind \in {"rectangle", "ellipse", "polygon"}

\* The title and the three detail rows (icon and text each) are on the canvas
TitleAndDetailsDrawn(ops) ==
    /\ Cardinality({i \in 1..Len(ops) : IsTitleText(ops[i])}) >= 1
    /\ Cardinality({i \in 1..Len(ops) : IsDetailText(ops[i])}) >= 3
    /\ Cardinality({i \in 1..Len(ops) : IsIconShape(ops[i])}) >= 5

\* C4 (as stated): in every format layout, when the illustration file exists
\* but cannot be opened or decoded, the illustration step is a no-op that
\* never aborts the render: all later layers are still drawn and the render
\* returns a complete raster.
C4_UnreadableIllustrationCompletes ==
    (/\ last.called
     /\ last.scale >= 1
     /\ Truthy(last.illustration_path)
     /\ Exists(files, last.illustration_path)
     /\ ~Decodable(files, last.illustration_path))
        => /\ IllustrationPastes(last.result.ops) = {}
           /\ last.result.returned
           /\ TitleAndDetailsDrawn(last.result.ops)

HasLogoSlot(format_name) == format_name # "instagram_story"

\* C5 (as stated): when the logo asset file does not exist or cannot be
\* loaded, a render of any format that has a logo slot completes
\* successfully without the logo mark, records a warning, and still draws
\* the title and all detail rows.
C5_MissingLogoCompletes ==
    (/\ last.called
     /\ last.scale >= 1
     /\ HasLogoSlot(last.format_name)
     /\ ~Decodable(files, LOGO_PATH))
        => /\ last.result.returned
           /\ LogoPastes(last.result.ops) = {}
           /\ \E i \in 1..Len(last.result.warnings) :
                  last.result.warnings[i] = LogoWarning
           /\ TitleAndDetailsDrawn(last.result.ops)

IsSpace(c) == c \in {" ", "\t", "\n"}

\* The words of a text: maximal runs of non-whitespace characters
RECURSIVE WordsAcc(_, _, _)
WordsAcc(text, cur, acc) ==
    IF text = <<>> THEN (IF cur = <<>> THEN acc ELSE Append(acc, cur))
    ELSE IF IsSpace(Head(text))
         THEN WordsAcc(Tail(text), <<>>,
                       IF cur = <<>> THEN acc ELSE Append(acc, cur))
         ELSE WordsAcc(Tail(text), Append(cur, Head(text)), acc)

Words(text) == WordsAcc(text, <<>>, <<>>)

C7_JoinIsNormalizedInput ==
    wrap.called
        => Join(wrap.lines, <<" ">>) = Join(Words(wrap.text), <<" ">>)

ScalesWithin1(v1, v2, s1, s2) == Abs(v2 * s1 - v1 * s2) <= s1

OpScalesWithin1(op1, op2, s1, s2) ==
    /\ op2.kind = op1.kind
    /\ Len(op2.p) = Len(op1.p)
    /\ \A j \in 1..Len(op1.p) : ScalesWithin1(op1.p[j], op2.p[j], s1, s2)
    /\ ScalesWithin1(op1.w, op2.w, s1, s2)

\* C9 (as stated): for every format and any two scale factors s1 and s2,
\* every drawn element's position, size and stroke width in the s2 render
\* equals its value in the s1 render times s2/s1, within 1 pixel.
C9_ScaleLinearity ==
    (last.called /\ last.result.returned)
        => \A s2 \in 1..MaxScale :
             LET r1 == last.result
                 r2 == create_event_graphic(files, last.event.title,
                           last.event.date, last.event.time,
                           last.event.location, last.illustration_path,
                           last.format_name, None, s2)
             IN  /\ Len(r2.ops) = Len(r1.ops)
                 /\ \A i \in 1..Len(r1.ops) :
                        OpScalesWithin1(r1.ops[i], r2.ops[i], last.scale, s2)

\* C10: for every illustration pixel with original alpha a in 0..255 and
\* every opacity in 0..1 (0.15 and 0.13 in the layouts), the alpha used as
\* the paste mask is at most opacity * a.
C10_MaskAtMostOpacityTimesAlpha ==
    px.called => (px.mask >= 0 /\ 100 * px.mask <= px.pct * px.a)

C10_Witness ==
    /\ px.called
    /\ px.pct \in {PptOpacity, StoryOpacity, PostOpacity, FbOpacity}
    /\ px.a = 255
    /\ px.mask > 0

\* C11 (as stated): draw_icon called with an icon type other than calendar,
\* clock or location fails with an InvalidIconType error; it never returns
\* normally having drawn nothing.
C11_UnknownIconTypeFails ==
    (icon.called /\ icon.icon_type \notin {"calendar", "clock", "location"})
        => /\ icon.status = "InvalidIconType"
           /\ ~(icon.status = "ok" /\ icon.ops = <<>>)

\* C12 (as stated): a render call with a zero or negative scale is rejected
\* before any drawing work begins: nothing is returned, no layout function
\* runs, no layer is drawn and no output file is written.
C12_NonPositiveScaleRejectedBeforeDrawing ==
    (last.called /\ last.scale <= 0)
        => /\ ~last.result.returned
           /\ last.result.ops = <<>>
           /\ ~last.result.written

\* The requested formats, as a set
Requested(formats) == {formats[i] : i \in 1..Len(formats)}

\* C13 (as stated): for every list of requested formats and every prefix,
\* generate_complete_graphic writes exactly one output file per requested
\* format, at <prefix>_<format>.png in the output directory, and returns a
\* mapping with one entry per requested format pointing to that file.
C13_OneFilePerRequestedFormat ==
    (batch.called /\ batch.pc \in {"returned", "raised"})
        => LET want == {<<f, OutputFile(batch.output_prefix, f)>> :
                          f \in Requested(batch.formats)}
           IN  /\ batch.pc = "returned"
               /\ batch.results = want
               /\ batch.written = {e[2] : e \in want}
               /\ \A e \in want : files[e[2]] = "image"

\* The outcome of call c when it runs alone on the given files
Alone(fs, call) ==
    LET ev == CHOOSE e \in Events : e.title = <<"L", "a">>
    IN  create_event_graphic(fs, ev.title, ev.date, ev.time, ev.location,
                             call.illustration_path, call.format_name,
                             call.output_path, call.scale)

\* C14: under every interleaving of concurrent render calls, no step changes
\* an asset file, a step changes the canvas of at most one call, and a call
\* that has ended holds the raster (or has failed as) the same call run alone.
C14_ConcurrentCallsIndependent ==
    [][ /\ \A p \in AssetPaths : files'[p] = files[p]
        /\ Cardinality({c \in CallIds :
                           calls'[c].canvas # calls[c].canvas}) <= 1
        /\ \A c \in CallIds :
              calls'[c].pc \in {"done", "failed"}
                => LET alone == Alone(files', calls'[c])
                   IN  /\ calls'[c].canvas = alone.ops
                       /\ (calls'[c].pc = "done") = alone.returned ]_vars

C14_Witness ==
    /\ calls # <<>>
    /\ \A c \in CallIds : calls[c].pc = "done"
    /\ calls[1].format_name # calls[2].format_name
    /\ calls[1].output_path = calls[2].output_path
    /\ files["output/event.png"] = "image"
    /\ \A c \in CallIds : Len(calls[c].canvas) >= 20

\* C15 (as stated): for every family, weight and pixel size and every
\* combination of present and absent font files, the font provider returns
\* a usable font at the requested size.
C15_FontResolutionNeverFails ==
    fontreq.called
        => /\ fontreq.result.ok
           /\ fontreq.result.size = fontreq.size

\* A divider: a horizontal line spanning more than a quarter of the canvas
\* (icon strokes are at most 69/1080 of the width long)
IsDivider(op, width) ==
    /\ op.kind = "line"
    /\ op.p[2] = op.p[4]
    /\ op.p[3] - op.p[1] > width \div 4

\* 1 illustration, 2 divider lines, 3 logo, 4 title, 5 detail rows
LayerRank(op, width) ==
    IF IsIllustrationPaste(op) THEN 1
    ELSE IF IsDivider(op, width) THEN 2
    ELSE IF IsLogoPaste(op) THEN 3
    ELSE IF IsTitleText(op) THEN 4
    ELSE 5

\* C16: in every format layout the drawing steps occur in the order
\* illustration, divider lines, logo, title, detail rows; the illustration
\* is pasted before anything else, a detail row's text follows its icon, and
\* a layout that omits a layer keeps the order of the remaining ones.
C16_FixedLayerOrder ==
    (last.called /\ last.scale >= 1)
        => LET ops == last.result.ops
               width == last.result.size[1]
           IN  /\ \A i, j \in 1..Len(ops) :
                      i < j => LayerRank(ops[i], width) <= LayerRank(ops[j], width)
               /\ \A i \in 1..Len(ops) : IsIllustrationPaste(ops[i]) => i = 1
               /\ \A j \in 1..Len(ops) :
                      IsDetailText(ops[j])
                        => j > 1 /\ LayerRank(ops[j - 1], width) = 5

C16_Witness ==
    /\ last.called
    /\ last.result.returned
    /\ last.format_name = "instagram_post"
    /\ \A r \in 1..5 :
          \E i \in 1..Len(last.result.ops) :
              LayerRank(last.result.ops[i], last.result.size[1]) = r

\* The words of all lines, in order
RECURSIVE LineWords(_)
LineWords(lines) ==
    IF lines = <<>> THEN <<>>
    ELSE Split(Head(lines), " ") \o LineWords(Tail(lines))

C18_EmptyInputNoLines ==
    wrap.called
        => /\ (wrap.text = <<>> => wrap.lines = <<>>)
           /\ (Words(wrap.text) # <<>> => Len(wrap.lines) >= 1)

\* The title draw steps of a render, in order
TitleOps(ops) == SelectSeq(ops, IsTitleText)

\* The title's lines: the pieces between its explicit line breaks
TitleLines(title) == Split(title, "\n")

\* C19 (as stated): in every format, including the slide format, the title
\* is split on its explicit line breaks and each line is drawn by its own
\* draw step, successive lines one fixed line spacing apart.
C19_TitleLinesDrawnSeparately ==
    (last.called /\ last.scale >= 1 /\ TitleOps(last.result.ops) # <<>>)
        => LET t == TitleOps(last.result.ops)
               lines == TitleLines(last.event.title)
           IN  /\ Len(t) = Len(lines)
               /\ \A i \in 1..Len(t) : t[i].txt = lines[i]
               /\ \A i \in 2..Len(t) :
                      /\ t[i].p[2] > t[i - 1].p[2]
                      /\ t[i].p[2] - t[i - 1].p[2] = t[2].p[2] - t[1].p[2]

\* C19 (amended): in the story, square post and wide post formats the title
\* is split on its explicit line breaks and line i (from 0) is drawn by its
\* own draw step at y = int(originY * s) + i * int(lineSpacing * s), with
\* origin and spacing 286/145, 140/115 and 138/125; in the slide format
\* (which also serves unregistered names) the whole title, line breaks
\* included, is drawn by one draw step at (59 * scale, 151 * scale).
C19_TitleStackedExceptOnSlide ==
    (/\ last.called
     /\ last.scale >= 1
     /\ (last.result.returned \/ TitleOps(last.result.ops) # <<>>))
        => LET t == TitleOps(last.result.ops)
               lines == TitleLines(last.event.title)
               f == last.format_name
               W == last.result.size[1]
               base == IF f = "facebook_post" THEN 1200 ELSE 1080
               x0 == CASE f = "instagram_story" -> 72
                       [] f = "instagram_post" -> 42
                       [] f = "facebook_post" -> 63
                       [] OTHER -> 59
               y0 == CASE f = "instagram_story" -> 286
                       [] f = "instagram_post" -> 140
                       [] f = "facebook_post" -> 138
                       [] OTHER -> 151
               spacing == CASE f = "instagram_story" -> 145
                            [] f = "instagram_post" -> 115
                            [] f = "facebook_post" -> 125
                            [] OTHER -> 0
           IN  IF f \in {"instagram_story", "instagram_post", "facebook_post"}
               THEN /\ Len(t) = Len(lines)
                    /\ \A i \in 1..Len(t) :
                          /\ t[i].txt = lines[i]
                          /\ t[i].p = << (x0 * W) \div base,
                                         (y0 * W) \div base
                                           + (i - 1) * ((spacing * W) \div base) >>
               ELSE /\ Len(t) = 1
                    /\ t[1].txt = last.event.title
                    /\ t[1].p = <<x0 * last.scale, y0 * last.scale>>

C19_Witness ==
    /\ last.called
    /\ last.result.returned
    /\ last.format_name = "instagram_story"
    /\ last.scale = 2
    /\ Len(TitleLines(last.event.title)) = 2
    /\ LET t == TitleOps(last.result.ops)
       IN  Len(t) = 2 /\ t[2].p[2] - t[1].p[2] = 290

\* The detail text draw steps of a render, in order
DetailOps(ops) == SelectSeq(ops, IsDetailText)

\* The characters drawn by a sequence of text steps
Texts(ops) == [i \in 1..Len(ops) |-> ops[i].txt]

IsSocialFormat(format_name) ==
    format_name \in {"instagram_story", "instagram_post", "facebook_post"}

\* Base width, detail font size, wrap width, text x, location y and line
\* height of the three social layouts, in base pixels
DetailGeometry(format_name) ==
    CASE format_name = "instagram_story" ->
           [base |-> 1080, size |-> 65, wrap |-> 850, x |-> 161, y |-> 1122, step |-> 70]
      [] format_name = "instagram_post" ->
           [base |-> 1080, size |-> 47, wrap |-> 500, x |-> 109, y |-> 726, step |-> 50]
      [] format_name = "facebook_post" ->
           [base |-> 1200, size |-> 34, wrap |-> 430, x |-> 691, y |-> 339, step |-> 38]

StatedStroke(size) == IF size \div 12 >= 2 THEN size \div 12 ELSE 2

\* The drawing steps of the last icon that are strokes: lines and outlines
Strokes == {i \in 1..Len(icon.ops) :
              icon.ops[i].kind = "line" \/ icon.ops[i].tag = "outline"}

\* C21 (as stated): for every icon type and every box side size >= 0, every
\* stroke of the icon (outlines, hands, hangers and the calendar's interior
\* grid lines) is drawn with width max(2, size/12).
C21_EveryStrokeUsesIconWidth ==
    (icon.called /\ icon.icon_type \in IconTypes)
        => \A i \in Strokes : icon.ops[i].w = StatedStroke(icon.size)

\* C21 (amended): the outlines, the calendar's divider and hangers, the
\* clock's hands and the pin's tail are drawn with width
\* max(2, size div 12); the calendar's five interior grid lines are drawn
\* with width 1 whatever the size, and the pin's dot is filled, not stroked.
C21_StrokesExceptGridUseIconWidth ==
    icon.called
        => /\ icon.icon_type = "calendar"
                => /\ Len(icon.ops) = 9
                   /\ \A i \in 1..4 : icon.ops[i].w = StatedStroke(icon.size)
                   /\ \A i \in 5..9 : /\ icon.ops[i].kind = "line"
                                      /\ icon.ops[i].w = 1
           /\ icon.icon_type = "clock"
                => /\ Len(icon.ops) = 3
                   /\ \A i \in 1..3 : icon.ops[i].w = StatedStroke(icon.size)
           /\ icon.icon_type = "location"
                => /\ Len(icon.ops) = 3
                   /\ icon.ops[1].w = StatedStroke(icon.size)
                   /\ icon.ops[3].w = StatedStroke(icon.size)
                   /\ icon.ops[2].tag = "fill"
                   /\ Strokes = {1, 3}

C21_Witness ==
    /\ icon.called
    /\ icon.icon_type = "calendar"
    /\ icon.size = 36
    /\ icon.ops[1].w = 3
    /\ icon.ops[9].w = 1

\* Length of one hand of the clock: the distance between its end points
HandLength(op) == Abs(op.p[3] - op.p[1]) + Abs(op.p[4] - op.p[2])

\* The hands of the last icon start at the centre of the box
HandsStartAtCentre ==
    \A i \in {2, 3} :
        /\ icon.ops[i].p[1] = icon.x + icon.size \div 2
        /\ icon.ops[i].p[2] = icon.y + icon.size \div 2

\* C22 (as stated): for every box side size >= 4 the clock's minute hand
\* (horizontal, toward 3 o'clock) is strictly longer than its hour hand
\* (vertical, toward 12 o'clock), and both start at the centre of the box.
C22_MinuteHandLonger ==
    (icon.called /\ icon.icon_type = "clock" /\ icon.size >= 4)
        => /\ HandsStartAtCentre
           /\ HandLength(icon.ops[3]) > HandLength(icon.ops[2])

\* C22 (amended): both hands start at the centre of the box; the hour hand
\* is vertical and ends at y + size div 4, the minute hand is horizontal
\* and ends at x + 3 * size div 4; the minute hand is never longer than the
\* hour hand: the two lengths are equal, except that the hour hand is one
\* pixel longer when size mod 4 = 2.
C22_HandsOfEqualQuarterLength ==
    (icon.called /\ icon.icon_type = "clock")
        => /\ HandsStartAtCentre
           /\ icon.ops[2].p[3] = icon.ops[2].p[1]
           /\ icon.ops[2].p[4] = icon.y + icon.size \div 4
           /\ icon.ops[3].p[4] = icon.ops[3].p[2]
           /\ icon.ops[3].p[3] = icon.x + (3 * icon.size) \div 4
           /\ HandLength(icon.ops[2]) - HandLength(icon.ops[3])
                = IF icon.size % 4 = 2 THEN 1 ELSE 0

C22_Witness ==
    /\ icon.called
    /\ icon.icon_type = "clock"
    /\ icon.size = 40
    /\ HandLength(icon.ops[2]) = 10
    /\ HandLength(icon.ops[3]) = 10

\* The parts of the last location icon: head = ops[1], dot = ops[2],
\* tail = ops[3]; the head lies in the upper half of the box
HeadInUpperHalf ==
    /\ icon.ops[1].p[2] = icon.y
    /\ icon.ops[1].p[4] = icon.y + icon.size \div 2
    /\ icon.ops[1].p[1] >= icon.x
    /\ icon.ops[1].p[3] <= icon.x + icon.size

\* C23 (as stated): for every box side size, the location icon's head
\* ellipse lies in the upper half of the box, its filled dot is centred on
\* the centre of the head ellipse, and the tail's top edge lies on the lower
\* edge of the head (y + size/2) with its apex at the bottom of the box.
C23_PinTailStartsAtHeadEdge ==
    (icon.called /\ icon.icon_type = "location")
        => LET head == icon.ops[1].p
               dot == icon.ops[2].p
               tail == icon.ops[3].p
           IN  /\ HeadInUpperHalf
               /\ Abs((dot[1] + dot[3]) - (head[1] + head[3])) <= 1
               /\ Abs((dot[2] + dot[4]) - (head[2] + head[4])) <= 1
               /\ tail[2] = icon.y + icon.size \div 2
               /\ tail[4] = icon.y + icon.size \div 2
               /\ tail[6] = icon.y + icon.size

\* C23 (amended): the head ellipse lies in the upper half of the box; the
\* filled dot is centred horizontally on the head (within a pixel) and its
\* vertical centre lies within half a pixel above and size/24 pixels below
\* the head's centre (twice the offset is between -1 and size div 12);
\* the tail's top edge spans the head's width at y + size div 3, inside the
\* head and above its lower edge, and its apex is at the bottom centre of
\* the box.
C23_PinTailStartsInsideHead ==
    (icon.called /\ icon.icon_type = "location")
        => LET head == icon.ops[1].p
               dot == icon.ops[2].p
               tail == icon.ops[3].p
           IN  /\ HeadInUpperHalf
               /\ Abs((dot[1] + dot[3]) - (head[1] + head[3])) <= 1
               /\ (dot[2] + dot[4]) - (head[2] + head[4]) >= 0 - 1
               /\ (dot[2] + dot[4]) - (head[2] + head[4])
                     <= icon.size \div 12
               /\ tail[1] = head[1] /\ tail[3] = head[3]
               /\ tail[2] = icon.y + icon.size \div 3
               /\ tail[4] = icon.y + icon.size \div 3
               /\ icon.size >= 4 => tail[2] < head[4]
               /\ tail[5] = icon.x + icon.size \div 2
               /\ tail[6] = icon.y + icon.size

C23_Witness ==
    /\ icon.called
    /\ icon.icon_type = "location"
    /\ icon.size = 40
    /\ icon.ops[3].p[2] = icon.y + 13
    /\ icon.ops[1].p[4] = icon.y + 20

\* The asset's width / height ratio is kept up to the flooring of one side
KeepsRatio(iw, ih, new_width, new_height) ==
    \/ /\ new_height * iw <= new_width * ih
       /\ new_width * ih < (new_height + 1) * iw
    \/ /\ new_width * ih <= new_height * iw
       /\ new_height * iw < (new_width + 1) * ih

\* C24 (as stated): in aspect-preserving mode, for every asset size and every
\* canvas size the resized illustration fits inside the box
\* (width * max_width_pct, height * max_height_pct), touches the box along
\* at least one dimension, has both sides >= 1 pixel, and keeps the asset's
\* width / height ratio within integer rounding.
C24_FitKeepsRatioAndIsVisible ==
    (placed.called /\ Decodable(files, IllustrationPath))
        => LET r == placed.result
               max_width == (placed.width * placed.max_width_pct) \div 100
               max_height == (placed.height * placed.max_height_pct) \div 100
           IN  /\ r.status = "pasted"
               /\ r.new_width <= max_width
               /\ r.new_height <= max_height
               /\ r.new_width = max_width \/ r.new_height = max_height
               /\ r.new_width >= 1
               /\ r.new_height >= 1
               /\ KeepsRatio(placed.iw, placed.ih, r.new_width, r.new_height)

\* Pixels of the pasted illustration beyond the right and the bottom edge
BeyondRight == placed.result.illust_x + placed.result.new_width - placed.width

BeyondBottom == placed.result.illust_y + placed.result.new_height - placed.height

\* b is pct percent of n rounded down to a pixel, and so between 10% and
\* 20% of n up to that rounding
BleedOf(b, n, pct) ==
    /\ b = (n * pct) \div 100
    /\ 100 * b <= 20 * n
    /\ 100 * b > 10 * n - 100

InsideCanvas ==
    /\ placed.result.illust_x >= 0
    /\ placed.result.illust_y >= 0
    /\ BeyondRight <= 0
    /\ BeyondBottom <= 0

LoadedSize == fontreq.result.size

\* C26 (as stated): for every requested pixel size, including zero, negative
\* and fractional sizes, the font provider clamps the size to a minimum
\* positive value before loading the font, in every font-resolving function
\* used by the renderer.
C26_SizeClampedInEveryProvider ==
    fontreq.called
        => /\ LoadedSize >= 1
           /\ fontreq.size[1] <= 0 => LoadedSize > fontreq.size[1]

\* C27 (as stated): whenever the primary font asset for a request is absent
\* and a fallback font is returned instead, the font provider emits a
\* warning for that resolution; no fallback is taken silently.
C27_FallbackIsReported ==
    (/\ fontreq.called
     /\ ~Exists(files, PrimaryPath(fontreq.request))
     /\ fontreq.result.ok)
        => /\ fontreq.result.path # PrimaryPath(fontreq.request)
           /\ fontreq.printed # <<>>

\* C28 (as stated): whenever a new illustration is generated successfully
\* (generate_illustration returns without raising for the cache path), the
\* illustration path then passed to every format's render names a file that
\* exists, so the generated illustration is composited into the graphics of
\* that same call.
C28_GeneratedIllustrationIsComposited ==
    (batch.called /\ batch.generated /\ batch.illustration_path # None)
        => /\ Exists(files, batch.illustration_path)
           /\ \A q \in batch.passed : Exists(files, q)

\* The batch has ended: it returned its results or an exception left it
BatchEnded == batch.called /\ batch.pc \in {"returned", "raised"}

\* The mapping a batch returns when every registered format it was asked
\* for has been rendered
RegisteredResults ==
    {<<f, OutputFile(batch.output_prefix, f)>> :
       f \in Requested(batch.formats) \cap DOMAIN FORMATS}

AllRegisteredRendered ==
    /\ batch.pc = "returned"
    /\ batch.results = RegisteredResults
    /\ \A e \in RegisteredResults : files[e[2]] = "image"

\* C29 (as stated): a requested format name that is not registered is
\* skipped with a warning and never aborts the batch: every registered
\* format in the list, before or after it, is still rendered and written,
\* and the returned mapping contains exactly the registered formats that
\* were requested.
C29_UnknownFormatNeverAborts ==
    (BatchEnded /\ Requested(batch.formats) \ DOMAIN FORMATS # {})
        => /\ AllRegisteredRendered
           /\ batch.skipped = Requested(batch.formats) \ DOMAIN FORMATS

\* The custom path, resp. the cached path, existed when the call started
CustomExisted ==
    /\ batch.custom_illustration_path # None
    /\ batch.before[batch.custom_illustration_path] # "absent"

CachedUsable ==
    /\ batch.event_type \in EVENT_PROMPTS
    /\ batch.use_cached_illustration
    /\ batch.before[IllustrationPath] # "absent"

\* C30 (as stated): the illustration is selected by fixed priority and at
\* most once per call: an existing custom path wins; otherwise, for a known
\* event type, an existing cached illustration is used when caching is
\* enabled; otherwise generation is attempted only if an API key is set; the
\* generator is never invoked when a custom or cached illustration was
\* selected, a generator failure leaves the call without illustration but
\* still renders every format, and the same illustration path (or none) is
\* passed to every format rendered by that call.
C30_IllustrationSelectedByPriority ==
    BatchEnded
        => /\ CustomExisted
                => /\ batch.illustration_path = batch.custom_illustration_path
                   /\ ~batch.generated
           /\ (~CustomExisted /\ CachedUsable)
                => /\ batch.illustration_path = IllustrationPath
                   /\ ~batch.generated
           /\ batch.generated
                <=> /\ ~CustomExisted
                    /\ ~CachedUsable
                    /\ batch.event_type \in EVENT_PROMPTS
                    /\ batch.api_key
           /\ (~CustomExisted /\ ~CachedUsable /\ ~batch.generated)
                => batch.illustration_path = None
           /\ (batch.generated /\ batch.illustration_path = None)
                => AllRegisteredRendered
           /\ batch.passed \subseteq {batch.illustration_path}

====
